---- MODULE Spec2Model ----
(***************************************************************************)
(* Model of src/app.py, a Streamlit review dashboard over the CSV file     *)
(* sih_problem_statements_formatted.csv.                                   *)
(*                                                                         *)
(* Streamlit executes the whole script once per user interaction.  Every   *)
(* execution re-reads the CSV file (line 19), so the DataFrame df lives    *)
(* for one execution only; what survives between executions is the file,   *)
(* st.session_state and the values of the widgets that were rendered.      *)
(* One action of the model is one interaction: the widget event followed   *)
(* by the script run(s) it triggers, up to the point the script ends.      *)
(*                                                                         *)
(* Texts (PS Number, title, description, notes, search box) are sequences  *)
(* of one-character strings; categorical cells and statuses are strings.   *)
(***************************************************************************)
EXTENDS Integers, Sequences, FiniteSets, TLC

\* ---------------------------------------------------------------- bounds
NumRecords == 2
MaxInteractions == 3

\* ------------------------------------------------------ values and helpers
NaN == <<"<NaN>">>
NotSet == <<"<unset>">>
NoRow == [none |-> TRUE]
NoWidget == [rendered |-> FALSE]
NoArtifact == [produced |-> FALSE]

Range(s) == {s[i] : i \in DOMAIN s}

\* ------------------------------------------------------------ the dataset
BaseColumns ==
    <<"PS Number", "Problem Statement Title", "Organization", "Department",
      "Category", "Theme", "Description">>

StatusList == <<"Not Reviewed", "Shortlisted", "Rejected", "See Later">>

DigitChars == <<"1", "2", "3", "4", "5", "6", "7", "8", "9">>

\* The cells of row i of the source file, as text.
SourceRow(i) ==
    [c \in Range(BaseColumns) |->
        CASE c = "PS Number" -> <<"2", "5", DigitChars[i]>>
          [] c = "Problem Statement Title" ->
                (CASE i % 3 = 1 -> <<"a", "b", "c">>
                   [] i % 3 = 2 -> <<"A", ".", "C">>
                   [] OTHER -> <<>>)
          [] c = "Organization" -> "MoE"
          [] c = "Department" -> "AICTE"
          [] c = "Category" -> (IF i = 1 THEN "Hardware" ELSE "Software")
          [] c = "Theme" -> "Agriculture"
          [] OTHER -> <<"*", "*", "x", "\n", "y">>]

\* The file as shipped: no Status, no Notes column.
FreshFile(n) == [cols |-> BaseColumns, rows |-> [i \in 1..n |-> SourceRow(i)]]

\* Texts the user may type in a notes box and in the search box.
NoteTexts == {<<>>, <<"o", "k">>, <<"N", "A">>}
RawQueries == {<<>>, <<"a", ".", "c">>, <<" ", "z">>}

\* ---------------------------------------------------------- DataFrame ops
\* df[c] = vals: replaces column c in place, or appends it as the last column.
AssignColumn(t, c, vals) ==
    [cols |-> IF c \in Range(t.cols) THEN t.cols ELSE Append(t.cols, c),
     rows |-> [i \in DOMAIN t.rows |->
                 [k \in (DOMAIN t.rows[i]) \cup {c} |->
                     IF k = c THEN vals[i] ELSE t.rows[i][k]]]]

\* SetWhere without the row mask, df[c] = v: every row is assigned.
SetWhereUnmasked(t, ps, c, v) ==
    [t EXCEPT !.rows = [i \in DOMAIN t.rows |-> [t.rows[i] EXCEPT ![c] = v]]]

\* df.loc[df['PS Number'] == ps, c] = v: every row whose key matches.
SetWhere(t, ps, c, v) ==
    [t EXCEPT !.rows = [i \in DOMAIN t.rows |->
        IF t.rows[i]["PS Number"] = ps THEN [t.rows[i] EXCEPT ![c] = v] ELSE t.rows[i]]]

\* df.loc[df['PS Number'] == ps, c].values[0]: the first matching row.
FirstWhere(t, ps, c) ==
    LET hits == {i \in DOMAIN t.rows : t.rows[i]["PS Number"] = ps}
    IN  t.rows[CHOOSE i \in hits : \A j \in hits : i <= j][c]

\* ------------------------------------------------------------------- CSV
TextColumns == {"PS Number", "Problem Statement Title", "Description",
                "Description_Cleaned", "Notes"}

\* pandas reads an empty cell and the token NA as a missing value.
ParseCell(c, cell) ==
    IF c \in TextColumns /\ cell \in {<<>>, <<"N", "A">>} THEN NaN ELSE cell

\* pd.read_csv
ReadCsv(file) ==
    [cols |-> file.cols,
     rows |-> [i \in DOMAIN file.rows |->
                 [c \in DOMAIN file.rows[i] |-> ParseCell(c, file.rows[i][c])]]]

\* to_csv writes a missing value as an empty cell.
FormatCell(c, v) == IF c \in TextColumns /\ v = NaN THEN <<>> ELSE v

\* ToCsv without index=False: the row index is written as a first column,
\* which read_csv names "Unnamed: 0".
ToCsvWithIndex(t) ==
    [cols |-> <<"Unnamed: 0">> \o t.cols,
     rows |-> [i \in DOMAIN t.rows |->
                 [c \in (DOMAIN t.rows[i]) \cup {"Unnamed: 0"} |->
                     IF c = "Unnamed: 0" THEN "row" ELSE FormatCell(c, t.rows[i][c])]]]

\* df.to_csv(path, index=False): every column, every row, no index column.
ToCsv(t) ==
    [cols |-> t.cols,
     rows |-> [i \in DOMAIN t.rows |->
                 [c \in DOMAIN t.rows[i] |-> FormatCell(c, t.rows[i][c])]]]

\* .str.replace('**', '').str.replace('\n', ' ') ; a missing value stays missing.
RECURSIVE CleanText(_)
CleanText(s) ==
    IF s = NaN \/ s = <<>> THEN s
    ELSE IF Len(s) >= 2 /\ s[1] = "*" /\ s[2] = "*" THEN CleanText(SubSeq(s, 3, Len(s)))
    ELSE <<IF s[1] = "\n" THEN " " ELSE s[1]>> \o CleanText(Tail(s))

\* read_csv types an all-digit PS Number as an integer and astype(str) prints
\* it back: leading zeros are lost.
RECURSIVE AsStr(_)
AsStr(s) == IF Len(s) > 1 /\ s[1] = "0" /\ Range(s) \subseteq (Range(DigitChars) \cup {"0"})
            THEN AsStr(Tail(s)) ELSE s

\* Line 22: df['PS Number'] = df['PS Number'].astype(str)
WithStringKeys(t) ==
    AssignColumn(t, "PS Number", [i \in DOMAIN t.rows |-> AsStr(t.rows[i]["PS Number"])])

\* Line 25: df['Description_Cleaned'] = ...
WithCleaned(t) ==
    AssignColumn(t, "Description_Cleaned",
                 [i \in DOMAIN t.rows |-> CleanText(t.rows[i]["Description"])])

\* Lines 28-29: the Status column, when the file has none.
WithStatus(t) ==
    IF "Status" \in Range(t.cols) THEN t
    ELSE AssignColumn(t, "Status", [i \in DOMAIN t.rows |-> "Not Reviewed"])

\* Lines 30-31: the Notes column, when the file has none.
WithNotes(t) ==
    IF "Notes" \in Range(t.cols) THEN t
    ELSE AssignColumn(t, "Notes", [i \in DOMAIN t.rows |-> <<>>])

\* Lines 18-31: the DataFrame every script run starts from.
Load(file) == WithNotes(WithStatus(WithCleaned(WithStringKeys(ReadCsv(file)))))

\* ------------------------------------------------------------ the sidebar
Lower(c) == CASE c = "A" -> "a" [] c = "B" -> "b" [] c = "C" -> "c"
              [] c = "N" -> "n" [] c = "Z" -> "z" [] OTHER -> c

\* str.strip() of the search box, line 38.
RECURSIVE Strip(_)
Strip(s) == IF s = <<>> THEN s
            ELSE IF s[1] = " " THEN Strip(Tail(s))
            ELSE IF s[Len(s)] = " " THEN Strip(SubSeq(s, 1, Len(s) - 1))
            ELSE s

\* Series.str.contains(q, case=False, na=False), lines 69-70.  The pattern is a
\* regular expression (regex=True is the default of str.contains): "." stands
\* for any character; the other characters of the texts used here are literal.
Contains(s, q) ==
    /\ s # NaN
    /\ \E i \in 0..(Len(s) - Len(q)) :
          \A j \in 1..Len(q) : q[j] = "." \/ Lower(q[j]) = Lower(s[i + j])

\* ["All"] + sorted(df[c].unique().tolist()), lines 41-45, as the set of options.
Options(t, c) == {"All"} \cup {t.rows[i][c] : i \in DOMAIN t.rows}

FilterColumns == <<"Category", "Organization", "Theme", "Department", "Status">>

AllSelected == [c \in Range(FilterColumns) |-> "All"]

\* Lines 56-65: one equality filter, skipped when the selector is "All".
WhereEquals(rows, sel, c) ==
    IF sel[c] # "All" THEN SelectSeq(rows, LAMBDA r : r[c] = sel[c]) ELSE rows

\* Lines 67-71: the search, skipped when the query is empty.
WhereSearch(rows, query) ==
    IF query # <<>>
    THEN SelectSeq(rows, LAMBDA r : \/ Contains(r["PS Number"], query)
                                    \/ Contains(r["Problem Statement Title"], query))
    ELSE rows

\* Lines 54-71: five equality filters, then the search.
Filter(t, sel, query) ==
    WhereSearch(
        WhereEquals(
            WhereEquals(
                WhereEquals(
                    WhereEquals(
                        WhereEquals(t.rows, sel, "Category"),
                        sel, "Organization"),
                    sel, "Theme"),
                sel, "Department"),
            sel, "Status"),
        query)

\* Clamp with > for >=: a cursor equal to the length is kept.
ClampOffByOne(c, len) == IF c > len THEN 0 ELSE c

\* Lines 82-87: the session cursor, kept inside the filtered sequence.
Clamp(c, len) == IF c >= len THEN 0 ELSE c

\* ------------------------------------------------------------- the state
VARIABLES
    disk,                  \* the CSV file
    df,                    \* the DataFrame at the end of the last script run
    selected,              \* the five sidebar selectboxes
    search_text,           \* the sidebar search box, as typed
    status_options,        \* the options the Status selectbox was rendered with
    current_ps_index,      \* st.session_state.current_ps_index
    last_saved,            \* st.session_state["last_saved_<PS Number>"]
    update_status_widget,  \* the "Update Status" selectbox as last rendered
    notes_widget,          \* the notes text area as last rendered
    view,                  \* what the last interaction showed and did
    remaining              \* interactions left in the session under study

vars == <<disk, df, selected, search_text, status_options, current_ps_index,
          last_saved, update_status_widget, notes_widget, view, remaining>>

PSNumbers(t) == {t.rows[i]["PS Number"] : i \in DOMAIN t.rows}

\* A widget event: which control, and the value, text or button key it carries.
Event(kind, col, val, text, key) ==
    [kind |-> kind, col |-> col, val |-> val, text |-> text, key |-> key,
     again |-> FALSE]

NoEvent == Event("none", "", "", <<>>, <<>>)

\* ------------------------------------------------------- the record store
\* Lines 138-140: the status of the current record, then the whole file.
UpdateStatus(t, file, ps, current_status, new_status) ==
    IF new_status # current_status
    THEN LET t1 == SetWhere(t, ps, "Status", new_status)
         IN  [df |-> t1, disk |-> ToCsv(t1), mutations |-> 1, writes |-> 1]
    ELSE [df |-> t, disk |-> file, mutations |-> 0, writes |-> 0]

\* AutoSave without the to_csv of line 180: the notes change in memory only.
AutoSaveUnwritten(t, file, ps, new_notes, saved) ==
    IF new_notes # saved
    THEN [df |-> SetWhere(t, ps, "Notes", new_notes), disk |-> file,
          mutations |-> 1, writes |-> 0, saved |-> new_notes]
    ELSE [df |-> t, disk |-> file, mutations |-> 0, writes |-> 0, saved |-> saved]

\* Lines 178-181: the notes are saved when they differ from the last saved text.
AutoSave(t, file, ps, new_notes, saved) ==
    IF new_notes # saved
    THEN LET t1 == SetWhere(t, ps, "Notes", new_notes)
         IN  [df |-> t1, disk |-> ToCsv(t1), mutations |-> 1, writes |-> 1,
              saved |-> new_notes]
    ELSE [df |-> t, disk |-> file, mutations |-> 0, writes |-> 0, saved |-> saved]

\* Lines 187-190: the Save Notes button.
SaveNotes(t, file, ps, new_notes, saved, pressed) ==
    IF pressed
    THEN LET t1 == SetWhere(t, ps, "Notes", new_notes)
         IN  [df |-> t1, disk |-> ToCsv(t1), mutations |-> 1, writes |-> 1,
              saved |-> new_notes]
    ELSE [df |-> t, disk |-> file, mutations |-> 0, writes |-> 0, saved |-> saved]

\* Lines 230-240: the Export Shortlisted button.
ExportShortlisted(t, pressed) ==
    LET shortlisted == SelectSeq(t.rows, LAMBDA r : r["Status"] = "Shortlisted")
    IN  IF ~pressed THEN [artifact |-> NoArtifact, warning |-> FALSE]
        ELSE IF shortlisted # <<>>
        THEN [artifact |-> [produced |-> TRUE,
                            csv |-> ToCsv([cols |-> t.cols, rows |-> shortlisted])],
              warning |-> FALSE]
        ELSE [artifact |-> NoArtifact, warning |-> TRUE]

\* Lines 110-119: the session cursor after the navigation buttons.
Navigate(c, total, kind) ==
    IF kind = "previous" /\ c > 0 THEN c - 1
    ELSE IF kind = "next" /\ c < total - 1 THEN c + 1
    ELSE c

\* --------------------------------------------------------- one script run
\* What an interaction has shown and done so far: nothing yet.
BeginView(ev, stale) ==
    [event |-> ev, stopped |-> FALSE, filtered_df |-> <<>>, total_problems |-> 0,
     current_index |-> 0, current_ps |-> NoRow, index_uses |-> <<>>,
     stale_index |-> stale, status_mutations |-> 0, notes_mutations |-> 0,
     writes |-> 0, artifact |-> NoArtifact, export_warning |-> FALSE,
     toast |-> "none", error |-> "none"]

\* Lines 135-141: the Update Status selectbox.  It has no key: rendered with
\* the same label, options and index it is the widget of the run before and
\* returns the value that widget holds; otherwise it returns its default.
AfterStatus(s, current_status, new_status, u) ==
    [s EXCEPT !.df = u.df,
              !.disk = u.disk,
              !.update_status_widget =
                    [rendered |-> TRUE, index |-> current_status, val |-> new_status],
              !.view.status_mutations = u.mutations,
              !.view.writes = @ + u.writes]

StatusSection(s) ==
    LET ps == s.view.current_ps["PS Number"]
        current_status == FirstWhere(s.df, ps, "Status")
        w == s.update_status_widget
        new_status == IF w.rendered /\ w.index = current_status
                      THEN w.val ELSE current_status
    IN  AfterStatus(s, current_status, new_status,
                    UpdateStatus(s.df, s.disk, ps, current_status, new_status))

\* Lines 162-182: the notes text area, keyed by the PS Number, and the auto-save.
AfterNotes(s, ps, new_notes, a) ==
    [s EXCEPT !.df = a.df,
              !.disk = a.disk,
              !.last_saved[ps] = a.saved,
              !.notes_widget = [rendered |-> TRUE, key |-> ps, val |-> new_notes],
              !.view.notes_mutations = a.mutations,
              !.view.writes = @ + a.writes]

NotesSection(s) ==
    LET ps == s.view.current_ps["PS Number"]
        stored == FirstWhere(s.df, ps, "Notes")
        current_notes == IF stored = NaN THEN <<>> ELSE stored
        saved == IF s.last_saved[ps] = NotSet THEN current_notes ELSE s.last_saved[ps]
        n == s.notes_widget
        new_notes == IF n.rendered /\ n.key = ps THEN n.val ELSE current_notes
    IN  AfterNotes(s, ps, new_notes, AutoSave(s.df, s.disk, ps, new_notes, saved))

\* Lines 184-191: the Save Notes button, keyed by the PS Number.
AfterSave(s, ps, b) ==
    [s EXCEPT !.df = b.df,
              !.disk = b.disk,
              !.last_saved[ps] = b.saved,
              !.view.notes_mutations = @ + b.mutations,
              !.view.writes = @ + b.writes]

SaveButton(s, ev) ==
    LET ps == s.view.current_ps["PS Number"]
    IN  AfterSave(s, ps, SaveNotes(s.df, s.disk, ps, s.notes_widget.val, s.last_saved[ps],
                                   ev.kind = "save" /\ ev.key = ps))

\* Lines 220-227: the Copy Prompt button; a clipboard failure is caught.
CopyButton(s, ev) ==
    [s EXCEPT !.view.toast =
        IF ev.kind = "copy" /\ ev.key = s.view.current_ps["PS Number"]
        THEN (IF ev.val = "ok" THEN "copied" ELSE "copy failed")
        ELSE "none"]

\* Lines 229-240: the Export Shortlisted button.
AfterExport(s, x) ==
    [s EXCEPT !.view.artifact = x.artifact, !.view.export_warning = x.warning]

ExportButton(s, ev) == AfterExport(s, ExportShortlisted(s.df, ev.kind = "export"))

\* Lines 122-240: the page of the current record.
Page(s, ev) == ExportButton(CopyButton(SaveButton(NotesSection(StatusSection(s)), ev), ev), ev)

\* Lines 73-76: nothing matches; st.stop() ends the run.  The widgets below the
\* stop are not rendered, and Streamlit drops the values of unrendered widgets.
Stopped(s) ==
    [s EXCEPT !.update_status_widget = NoWidget,
              !.notes_widget = NoWidget,
              !.view.stopped = TRUE,
              !.view.filtered_df = <<>>,
              !.view.total_problems = 0,
              !.view.current_ps = NoRow]

\* Line 91 with an index outside the sequence: iloc raises IndexError and the
\* run ends there.
Crashed(s) == [Stopped(s) EXCEPT !.view.error = "IndexError"]

\* Lines 36-51: the sidebar.  A selectbox rendered with other options is a new
\* widget, so the Status selector is back at "All" when the statuses changed.
Sidebar(s, t) ==
    [s EXCEPT !.df = t,
              !.status_options = Options(t, "Status"),
              !.selected = IF Options(t, "Status") = s.status_options THEN s.selected
                           ELSE [s.selected EXCEPT !["Status"] = "All"]]

\* Lines 108-119, 122-240: st.rerun() abandons the run before the page is
\* drawn and starts a new one with no button pressed; the widgets of the page
\* were not rendered in the abandoned run.
RECURSIVE Script(_, _)
Buttons(s, ev) ==
    IF Navigate(s.current_ps_index, s.view.total_problems, ev.kind) # s.current_ps_index
    THEN Script([s EXCEPT !.current_ps_index =
                              Navigate(s.current_ps_index, s.view.total_problems, ev.kind),
                          !.update_status_widget = NoWidget,
                          !.notes_widget = NoWidget],
                NoEvent)
    ELSE Page(s, ev)

\* Lines 89-91: the current record.
Current(s, ev) ==
    IF s.current_ps_index + 1 \notin DOMAIN s.view.filtered_df
    THEN Crashed(s)
    ELSE Buttons([s EXCEPT !.view.current_index = s.current_ps_index,
                           !.view.current_ps = s.view.filtered_df[s.current_ps_index + 1]],
                 ev)

\* Lines 73-91: the empty-filter stop, then the cursor kept inside the sequence.
Cursor(s, ev, filtered) ==
    IF filtered = <<>> THEN Stopped(s)
    ELSE Current([s EXCEPT !.current_ps_index = Clamp(@, Len(filtered)),
                           !.view.filtered_df = filtered,
                           !.view.total_problems = Len(filtered),
                           !.view.index_uses =
                                 Append(@, [index |-> Clamp(s.current_ps_index, Len(filtered)),
                                            length |-> Len(filtered)])],
                 ev)

\* One execution of the script on the session s; ev is the widget event of
\* this run.
Script(s, ev) ==
    Cursor(Sidebar(s, Load(s.disk)), ev,
           Filter(Load(s.disk), Sidebar(s, Load(s.disk)).selected, Strip(s.search_text)))

\* The session as a record, and the step that replaces it.
Session ==
    [disk |-> disk, df |-> df, selected |-> selected, search_text |-> search_text,
     status_options |-> status_options, current_ps_index |-> current_ps_index,
     last_saved |-> last_saved, update_status_widget |-> update_status_widget,
     notes_widget |-> notes_widget, view |-> view]

Becomes(r) ==
    /\ disk' = r.disk
    /\ df' = r.df
    /\ selected' = r.selected
    /\ search_text' = r.search_text
    /\ status_options' = r.status_options
    /\ current_ps_index' = r.current_ps_index
    /\ last_saved' = r.last_saved
    /\ update_status_widget' = r.update_status_widget
    /\ notes_widget' = r.notes_widget
    /\ view' = r.view

Interact(s, ev) ==
    /\ remaining > 0
    /\ remaining' = remaining - 1
    /\ Becomes(Script([s EXCEPT !.view = BeginView(ev, s.current_ps_index)], ev))

\* ------------------------------------------------------------------ Init
\* The file as an earlier session of this program left it (lines 140, 180, 189),
\* every second record shortlisted.
SavedFile(n) ==
    ToCsv(AssignColumn(Load(FreshFile(n)), "Status",
              [i \in 1..n |-> IF i % 2 = 0 THEN "Shortlisted" ELSE "Not Reviewed"]))

InitialFiles(n) == {FreshFile(n), SavedFile(n)}

\* The session before the first run: no widget has a value, no session key is set.
NewSession(file) ==
    [disk |-> file, df |-> Load(file), selected |-> AllSelected, search_text |-> <<>>,
     status_options |-> {}, current_ps_index |-> 0,
     last_saved |-> [ps \in PSNumbers(Load(file)) |-> NotSet],
     update_status_widget |-> NoWidget, notes_widget |-> NoWidget,
     view |-> BeginView(NoEvent, 0)]

\* The state once the page is first drawn, for a file of n records and a
\* session of len interactions.
\* The session a first script run leaves.
Begins(r) ==
    /\ disk = r.disk
    /\ df = r.df
    /\ selected = r.selected
    /\ search_text = r.search_text
    /\ status_options = r.status_options
    /\ current_ps_index = r.current_ps_index
    /\ last_saved = r.last_saved
    /\ update_status_widget = r.update_status_widget
    /\ notes_widget = r.notes_widget
    /\ view = r.view

Start(n, len) ==
    /\ remaining = len
    /\ \E file \in InitialFiles(n) : Begins(Script(NewSession(file), NoEvent))

Init == Start(NumRecords, MaxInteractions)

\* A longer session over a larger file.
InitLong == Start(NumRecords + 1, MaxInteractions + 1)

\* --------------------------------------------------------------- actions
\* A sidebar selectbox is set to another of the options it shows (lines 47-51).
ChangeFilter ==
    \E c \in Range(FilterColumns) :
       \E v \in (IF c = "Status" THEN status_options ELSE Options(df, c)) \ {selected[c]} :
          Interact([Session EXCEPT !.selected[c] = v], Event("filter", c, v, <<>>, <<>>))

\* The search box is edited (line 38).
ChangeSearch ==
    \E text \in RawQueries \ {search_text} :
       Interact([Session EXCEPT !.search_text = text], Event("search", "", "", text, <<>>))

\* Previous is clicked (lines 110-113).
ClickPrevious ==
    /\ ~view.stopped
    /\ Interact(Session, Event("previous", "", "", <<>>, <<>>))

\* Next is clicked (lines 116-119).
ClickNext ==
    /\ ~view.stopped
    /\ Interact(Session, Event("next", "", "", <<>>, <<>>))

\* A status is picked in the Update Status selectbox (line 137).  The event
\* notes whether it repeats the request of the interaction before it.
SelectStatus ==
    /\ ~view.stopped
    /\ \E v \in Range(StatusList) :
          Interact([Session EXCEPT !.update_status_widget.val = v],
                   [Event("status", "", v, <<>>, view.current_ps["PS Number"])
                        EXCEPT !.again = (view.event.kind = "status" /\ view.event.val = v)])

\* The notes text area is edited (line 175).
EditNotes ==
    /\ ~view.stopped
    /\ \E text \in NoteTexts \ {notes_widget.val} :
          Interact([Session EXCEPT !.notes_widget.val = text],
                   Event("notes", "", "", text, view.current_ps["PS Number"]))

\* Save Notes is clicked (line 187); the button is keyed by the record shown.
ClickSaveNotes ==
    /\ ~view.stopped
    /\ Interact(Session, Event("save", "", "", <<>>, view.current_ps["PS Number"]))

\* Copy Prompt is clicked (lines 222-227); the clipboard call works or raises.
ClickCopyPrompt ==
    /\ ~view.stopped
    /\ \E outcome \in {"ok", "failed"} :
          Interact(Session, Event("copy", "", outcome, <<>>, view.current_ps["PS Number"]))

\* Export Shortlisted is clicked (line 230).
ClickExport ==
    /\ ~view.stopped
    /\ Interact(Session, Event("export", "", "", <<>>, <<>>))

Next ==
    \/ ChangeFilter
    \/ ChangeSearch
    \/ ClickPrevious
    \/ ClickNext
    \/ SelectStatus
    \/ EditNotes
    \/ ClickSaveNotes
    \/ ClickCopyPrompt
    \/ ClickExport

Spec == Init /\ [][Next]_vars

SpecLong == InitLong /\ [][Next]_vars

\* ---------------------------------------------------------------- claims
\* The row of table t whose PS Number is ps.
RowOf(t, ps) == t.rows[CHOOSE i \in DOMAIN t.rows : t.rows[i]["PS Number"] = ps]

\* q is a case-insensitive substring of s; a missing value holds no substring.
Substring(s, q) ==
    /\ s # NaN
    /\ \E i \in 0..(Len(s) - Len(q)) : \A j \in 1..Len(q) : Lower(q[j]) = Lower(s[i + j])

\* Record r passes every selector that is not "All" and, for a query, holds it.
Passes(r, sel, q) ==
    /\ \A c \in Range(FilterColumns) : sel[c] = "All" \/ r[c] = sel[c]
    /\ q # <<>> => \/ Substring(r["PS Number"], q)
                   \/ Substring(r["Problem Statement Title"], q)

Matching(t, sel, q) == SelectSeq(t.rows, LAMBDA r : Passes(r, sel, q))

\* C1: the filtered sequence of an interaction is exactly the loaded records
\* that pass every selector other than "All" and, when the query is not empty,
\* hold the query as a case-insensitive substring of PS Number or of the title,
\* in the order of the loaded set.
C1_FilterKeepsExactlyTheMatches ==
    [][view'.filtered_df = Matching(Load(disk), selected', Strip(search_text'))]_vars

\* C2: every use of the cursor as an index (line 91) falls inside a filtered
\* sequence that is not empty, and the record shown is the one at the cursor.
C2_CursorIndexesInsideFilteredSequence ==
    /\ view.error = "none"
    /\ \A n \in DOMAIN view.index_uses :
          /\ view.index_uses[n].length > 0
          /\ 0 <= view.index_uses[n].index
          /\ view.index_uses[n].index <= view.index_uses[n].length - 1
    /\ ~view.stopped =>
          /\ view.filtered_df # <<>>
          /\ view.total_problems = Len(view.filtered_df)
          /\ view.current_index = current_ps_index
          /\ 0 <= view.current_index
          /\ view.current_index <= Len(view.filtered_df) - 1
          /\ view.current_ps = view.filtered_df[view.current_index + 1]

\* C2 witness: a filter or search change left fewer records than the cursor it
\* found, and the page was drawn at the clamped cursor.
C2_Witness ==
    /\ ~view.stopped
    /\ view.event.kind \in {"filter", "search"}
    /\ view.stale_index >= view.total_problems
    /\ view.current_index = 0

\* clamp of the spec, section 4.3.
SpecClamp(c, len) == IF len = 0 \/ c >= len THEN 0 ELSE c

\* C3: whenever the filtered sequence is recomputed with length L the session
\* cursor c becomes clamp(c, L), which is 0 when L = 0; stated for the
\* interactions that do not also move the cursor.
C3_CursorIsClampedOnEveryRecompute ==
    [][view'.event.kind \notin {"previous", "next"}
          => current_ps_index' = SpecClamp(current_ps_index, Len(view'.filtered_df))]_vars

C5_FileEqualsMemoryAfterEdit ==
    view.status_mutations + view.notes_mutations > 0 =>
        /\ view.writes = view.status_mutations + view.notes_mutations
        /\ disk.cols = df.cols
        /\ DOMAIN disk.rows = DOMAIN df.rows
        /\ \A i \in DOMAIN df.rows :
              /\ DOMAIN disk.rows[i] = DOMAIN df.rows[i]
              /\ disk.rows[i]["Status"] = df.rows[i]["Status"]
              /\ disk.rows[i]["Notes"] =
                    (IF df.rows[i]["Notes"] = NaN THEN <<>> ELSE df.rows[i]["Notes"])
              /\ \A c \in DOMAIN df.rows[i] \ TextColumns :
                    disk.rows[i][c] = df.rows[i][c]
              /\ \A c \in (DOMAIN df.rows[i]) \cap TextColumns :
                    disk.rows[i][c] = (IF df.rows[i][c] = NaN THEN <<>> ELSE df.rows[i][c])

\* C5 witness: a notes edit was saved by the auto-save.
C5_Witness ==
    /\ view.event.kind = "notes"
    /\ view.notes_mutations = 1
    /\ view.writes = 1

\* C6: an Export click yields the Shortlisted records of the store, in store
\* order, when there is one, and the empty-export warning and no artifact
\* when there is none, whatever the filters and the cursor.
C6_ExportYieldsTheShortlisted ==
    view.event.kind = "export" =>
        LET shortlisted == SelectSeq(df.rows, LAMBDA r : r["Status"] = "Shortlisted")
        IN  IF shortlisted # <<>>
            THEN /\ view.artifact.produced
                 /\ ~view.export_warning
                 /\ Len(view.artifact.csv.rows) = Len(shortlisted)
                 /\ \A i \in DOMAIN shortlisted :
                       view.artifact.csv.rows[i]["PS Number"] = shortlisted[i]["PS Number"]
            ELSE ~view.artifact.produced /\ view.export_warning

\* The schema of the input dataset, section 6 of the spec.
InputSchema == BaseColumns \o <<"Status", "Notes">>

\* C7: the export artifact has the columns of the input dataset, in its order,
\* and no other column.
C7_ExportHasTheInputSchema ==
    view.artifact.produced => view.artifact.csv.cols = InputSchema

\* Two record sets hold the same columns and the same cells, a missing value
\* and an empty text being the same notes (line 165).
SameRecords(a, b) ==
    /\ a.cols = b.cols
    /\ DOMAIN a.rows = DOMAIN b.rows
    /\ \A i \in DOMAIN a.rows :
          /\ DOMAIN a.rows[i] = DOMAIN b.rows[i]
          /\ \A c \in DOMAIN a.rows[i] :
                IF c = "Notes"
                THEN (IF a.rows[i][c] = NaN THEN <<>> ELSE a.rows[i][c])
                        = (IF b.rows[i][c] = NaN THEN <<>> ELSE b.rows[i][c])
                ELSE a.rows[i][c] = b.rows[i][c]

\* C8: when the status of the record shown was set to v and the next
\* interaction sets the status of the same record to v again, the second
\* request leaves the file and the record set in memory as the first left them.
C8_SecondStatusRequestChangesNothing ==
    [][(/\ ~view.stopped
        /\ view.event.kind = "status"
        /\ FirstWhere(df, view.current_ps["PS Number"], "Status") = view.event.val
        /\ view'.event.kind = "status"
        /\ view'.event.val = view.event.val
        /\ ~view'.stopped
        /\ view'.current_ps["PS Number"] = view.current_ps["PS Number"])
       => /\ disk' = disk
          /\ SameRecords(df', df)]_vars

\* C8 witness: a status was written, and the request that repeats it for the
\* same record has been handled.
C8_Witness ==
    /\ ~view.stopped
    /\ view.event.kind = "status"
    /\ view.event.again
    /\ view.event.key = view.current_ps["PS Number"]
    /\ view.event.val # "Not Reviewed"
    /\ FirstWhere(df, view.current_ps["PS Number"], "Status") = view.event.val
    /\ "Description_Cleaned" \in Range(disk.cols)

\* C9: at the end of an interaction the record shown, as the store then holds
\* it, passes every selector that is not "All" and the search of lines 67-71.
C9_ShownRecordPassesTheFilters ==
    ~view.stopped =>
        LET r == RowOf(df, view.current_ps["PS Number"])
            q == Strip(search_text)
        IN  /\ \A c \in Range(FilterColumns) : selected[c] = "All" \/ r[c] = selected[c]
            /\ q # <<>> => \/ Contains(r["PS Number"], q)
                           \/ Contains(r["Problem Statement Title"], q)

\* C10: a filter or search change and a Previous, Next, Copy Prompt or Export
\* click write nothing to the file and leave every status and every notes as
\* loaded.
C10_OnlyEditsWrite ==
    [][view'.event.kind \in {"filter", "search", "previous", "next", "copy", "export"}
          => /\ view'.writes = 0
             /\ disk' = disk
             /\ \A i \in DOMAIN df'.rows :
                   /\ df'.rows[i]["Status"] = Load(disk).rows[i]["Status"]
                   /\ df'.rows[i]["Notes"] = Load(disk).rows[i]["Notes"]]_vars

====
